---- MODULE Spec2Model ----
(***************************************************************************)
(* Planner and evaluator rules of agentic-ai-cyberres, as written in the   *)
(* two rule texts of src/unnamed/part_001 (evaluator: lines 1-14, planner: *)
(* lines 15-23), with the tool response envelope of                        *)
(* src/python/cyberres-mcp/README.md (lines 57-69).                        *)
(*                                                                         *)
(* One validation run: a ValidationRequest is planned, the planned tools   *)
(* return their outputs (in any order, any subset), and the outputs are    *)
(* evaluated against the acceptance profile.                               *)
(*                                                                         *)
(* A second specification, SpecPg, is one call of the                      *)
(* PostgreSQLDataValidator tool handler of src/unnamed/part_002.           *)
(*                                                                         *)
(* What the rule texts leave open stays open in the model:                 *)
(*  - the integer score is any integer within 1 of 100 * passed / total    *)
(*    (no rounding mode is named), and any integer of 0..100 when there is *)
(*    no check at all (the quotient is undefined);                         *)
(*  - the marks of the tools are kept per tool: no order across tools is   *)
(*    given for the list of failures;                                      *)
(*  - a resourceType outside vm/oracle/mongo, a port other than the one    *)
(*    named for the type and a payload with a field missing have no rule,  *)
(*    and are not among the inputs.                                        *)
(***************************************************************************)
EXTENDS Integers, Sequences, FiniteSets

VARIABLES request, profile, thePlan, outs, verdict, pc

\* The PostgreSQLDataValidator tool handler (src/unnamed/part_002, lines
\* 89-221): its input, the environment values it has read, the psql commands
\* it has run, its loop over the listed tables and what it returns.
VARIABLES argument, pgDbName, tables, idx, validationSummary, allResults,
          executed, returnString, pgpc

pgvars == <<argument, pgDbName, tables, idx, validationSummary, allResults,
            executed, returnString, pgpc>>

vars == <<request, profile, thePlan, outs, verdict, pc, pgvars>>

\* ------------------------------------------------------------- bounds
\* longest filesystem list a vm_linux_fs_usage output reports
MaxFs == 2
\* longest tablespace list a db_oracle_tablespaces output reports
MaxTs == 1

\* ------------------------------------------------------------ planner
SshPort == 22
OraclePort == 1521
MongoPort == 27017

ResourceTypes == {"vm", "oracle", "mongo"}

\* A ValidationRequest: the resourceType and whether a connection URI is given.
Requests == [resourceType : ResourceTypes, uri : BOOLEAN]

\* Rule 1: the port whose reachability is checked.
RelevantPort(rt) ==
  CASE rt = "vm" -> SshPort
    [] rt = "oracle" -> OraclePort
    [] rt = "mongo" -> MongoPort

Step(tool, args) == [tool |-> tool, args |-> args]

ToolsForMut(req) ==
  CASE req.resourceType = "vm" ->
         <<"vm_linux_uptime_load_mem", "vm_linux_fs_usage", "vm_linux_services">>
    [] req.resourceType = "oracle" ->
         <<"db_oracle_connect", "db_oracle_tablespaces">>
    [] req.resourceType = "mongo" ->
         <<"db_mongo_connect", "db_mongo_rs_status">>

\* Rule 2: the tools that apply to the resourceType, in order.
ToolsFor(req) ==
  CASE req.resourceType = "vm" ->
         <<"vm_linux_uptime_load_mem", "vm_linux_fs_usage", "vm_linux_services">>
    [] req.resourceType = "oracle" ->
         <<"db_oracle_connect", "db_oracle_tablespaces">>
    [] req.resourceType = "mongo" ->
         IF req.uri THEN <<"db_mongo_connect", "db_mongo_rs_status">>
                    ELSE <<"db_mongo_connect">>

\* The plan {"steps":[{"tool":..., "args":{...}}, ...]}.
Plan(req) ==
  <<Step("tcp_portcheck", [port |-> RelevantPort(req.resourceType)])>>
    \o [i \in 1..Len(ToolsFor(req)) |-> Step(ToolsFor(req)[i], <<>>)]

PlanTools(p) == {p[i].tool : i \in 1..Len(p)}

\* --------------------------------------------------- tool outputs
\* Every tool answers with the envelope {"ok": true, ...}; an error is
\* {"ok": false, "error": {...}} and carries no payload.
Mounts == {"/", "/var"}
UsePctChoices == {80, 90, 95}
FsEntries == [mount : Mounts, use_pct : UsePctChoices]

Services == {"sshd", "crond"}

TsEntries ==
  { [name |-> "USERS", free_mb |-> 50, total_mb |-> 1000],
    [name |-> "USERS", free_mb |-> 100, total_mb |-> 1000],
    [name |-> "SYSTEM", free_mb |-> 500, total_mb |-> 1000] }

SeqsUpTo(S, n) == UNION { [1..k -> S] : k \in 0..n }

\* The outputs a tool can return. The payload rules of the memory, services
\* and replica-set tools read fields an error envelope does not have, so
\* only their successful outputs are among the inputs.
OutputsOf(tool) ==
  CASE tool = "tcp_portcheck" ->
         { [tool |-> tool, ok |-> b] : b \in BOOLEAN }
    [] tool = "vm_linux_uptime_load_mem" ->
         { [tool |-> tool, ok |-> TRUE, MemTotal |-> 8, MemFree |-> f] :
             f \in {0, 1, 2, 8} }
    [] tool = "vm_linux_fs_usage" ->
         { [tool |-> tool, ok |-> TRUE, filesystems |-> fs] :
             fs \in SeqsUpTo(FsEntries, MaxFs) }
           \cup { [tool |-> tool, ok |-> FALSE, filesystems |-> <<>>] }
    [] tool = "vm_linux_services" ->
         { [tool |-> tool, ok |-> TRUE, missing |-> m] : m \in SUBSET Services }
    [] tool = "db_oracle_connect" ->
         { [tool |-> tool, ok |-> b] : b \in BOOLEAN }
    [] tool = "db_oracle_tablespaces" ->
         { [tool |-> tool, ok |-> TRUE, tablespaces |-> ts] :
             ts \in SeqsUpTo(TsEntries, MaxTs) }
           \cup { [tool |-> tool, ok |-> FALSE, tablespaces |-> <<>>] }
    [] tool = "db_mongo_connect" ->
         { [tool |-> tool, ok |-> b] : b \in BOOLEAN }
    [] tool = "db_mongo_rs_status" ->
         { [tool |-> tool, ok |-> TRUE, myState |-> st] : st \in {1, 2, 3} }

\* ------------------------------------------------ acceptance profile
\* tablespace_min_free_pct is compared with the ratio free_mb / total MB;
\* it is kept as the fraction num / den.
Profiles ==
  [ fs_max_pct : {80, 90},
    mem_min_free_pct : {25},
    required_services : SUBSET Services,
    tablespace_min_free_pct : {[num |-> 1, den |-> 10]},
    allowed_states : {{1, 2}} ]

\* ---------------------------------------------------------- evaluator
\* One mark: which tool (and which item of its payload) it is about, PASS or
\* FAIL, and a short message for a failure.
Check(name, failed) ==
  [ name |-> name,
    status |-> IF failed THEN "FAIL" ELSE "PASS",
    message |-> failed ]

FsUsageRuleMut(out, prof) ==
  [ i \in 1..Len(out.filesystems) |->
      Check(<<out.tool, out.filesystems[i].mount>>,
            out.filesystems[i].use_pct >= prof.fs_max_pct) ]

\* vm_linux_fs_usage: for each filesystem, FAIL for that filesystem if
\* use_pct > fs_max_pct.
FsUsageRule(out, prof) ==
  [ i \in 1..Len(out.filesystems) |->
      Check(<<out.tool, out.filesystems[i].mount>>,
            out.filesystems[i].use_pct > prof.fs_max_pct) ]

\* vm_linux_uptime_load_mem: free percentage = MemFree / MemTotal * 100;
\* FAIL if it is < mem_min_free_pct.
MemRule(out, prof) ==
  << Check(<<out.tool>>,
           out.MemFree * 100 < prof.mem_min_free_pct * out.MemTotal) >>

ServicesRuleMut(out, prof) ==
  << Check(<<out.tool>>, out.missing # {}) >>

\* vm_linux_services: FAIL if any of required_services is reported missing.
ServicesRule(out, prof) ==
  << Check(<<out.tool>>, prof.required_services \cap out.missing # {}) >>

\* db_oracle_connect, db_mongo_connect: FAIL if ok is false.
ConnectRule(out, prof) ==
  << Check(<<out.tool>>, ~out.ok) >>

\* db_oracle_tablespaces: for each tablespace, FAIL if
\* free_mb / total MB < tablespace_min_free_pct.
TablespacesRule(out, prof) ==
  [ i \in 1..Len(out.tablespaces) |->
      Check(<<out.tool, out.tablespaces[i].name>>,
            out.tablespaces[i].free_mb * prof.tablespace_min_free_pct.den
              < prof.tablespace_min_free_pct.num * out.tablespaces[i].total_mb) ]

\* db_mongo_rs_status: FAIL if myState is not in allowed_states.
RsStatusRule(out, prof) ==
  << Check(<<out.tool>>, out.myState \notin prof.allowed_states) >>

\* The marks one tool output gives. tcp_portcheck has no evaluation rule.
RuleFor(out, prof) ==
  CASE out.tool = "vm_linux_fs_usage" -> FsUsageRule(out, prof)
    [] out.tool = "vm_linux_uptime_load_mem" -> MemRule(out, prof)
    [] out.tool = "vm_linux_services" -> ServicesRule(out, prof)
    [] out.tool = "db_oracle_connect" -> ConnectRule(out, prof)
    [] out.tool = "db_oracle_tablespaces" -> TablespacesRule(out, prof)
    [] out.tool = "db_mongo_connect" -> ConnectRule(out, prof)
    [] out.tool = "db_mongo_rs_status" -> RsStatusRule(out, prof)
    [] OTHER -> <<>>

\* The marks of all the outputs given, per tool.
ChecksOf(os, prof) == [t \in DOMAIN os |-> RuleFor(os[t], prof)]

NumWith(cs, st) == Cardinality({i \in 1..Len(cs) : cs[i].status = st})

RECURSIVE CountStatus(_, _, _)
CountStatus(checks, tools, st) ==
  IF tools = {} THEN 0
  ELSE LET t == CHOOSE x \in tools : TRUE
       IN  NumWith(checks[t], st) + CountStatus(checks, tools \ {t}, st)

PassedChecks(checks) == CountStatus(checks, DOMAIN checks, "PASS")
TotalChecks(checks) ==
  CountStatus(checks, DOMAIN checks, "PASS")
    + CountStatus(checks, DOMAIN checks, "FAIL")

OverallPassMut(checks) == 2 * PassedChecks(checks) >= TotalChecks(checks)

\* The pass/fail status: FAIL as soon as one mark is FAIL.
OverallPass(checks) == CountStatus(checks, DOMAIN checks, "FAIL") = 0

\* The integer scores (0-100) that are the number of passed checks divided by
\* the total number of checks, multiplied by 100.
ScoreChoices(passed, total) ==
  IF total = 0 THEN 0..100
  ELSE { s \in 0..100 : s * total > 100 * passed - total
                        /\ s * total < 100 * passed + total }

NoVerdict == [checks |-> <<>>, score |-> 0, overallPass |-> FALSE]

\* -------------------------------------- PostgreSQLDataValidator handler
\* longest list of tables the database reports
MaxTables == 2

\* A name is the sequence of its characters; <<>> is the empty string and an
\* environment variable that is not set.
Names ==
  { <<>>, <<"a">>, <<"Z", "7">>, <<"a", "_", "$">>,
    <<"a", ";", "b">>, <<"a", " ", "b">>, <<";">> }

\* The characters of [a-zA-Z0-9_$], among those the names use.
IdentChars == {"a", "b", "Z", "7", "_", "$"}

\* !name || !/^[a-zA-Z0-9_$]+$/.test(name) is false.
ValidName(name) ==
  /\ Len(name) > 0
  /\ \A i \in 1..Len(name) : name[i] \in IdentChars

\* tablesOutput.split('\n').map(trim).filter(length > 0): the names of the
\* public tables, none of them empty.
ListedNames == Names \ {<<>>}

\* What running psql on postgresDataValidator.sql for one table gives:
\* psql fails (execSync throws), or the last non-empty line of its output
\* is not JSON, is JSON null, or is JSON with this valid and this errors
\* ("array", "absent", or "other": a value that is truthy and has no join).
PsqlResults ==
  { [throws |-> TRUE, parse |-> "none", valid |-> FALSE, errors |-> "absent"] }
    \cup { [throws |-> FALSE, parse |-> p, valid |-> FALSE, errors |-> "absent"] :
             p \in {"error", "null"} }
    \cup { [throws |-> FALSE, parse |-> "object", valid |-> v, errors |-> e] :
             v \in BOOLEAN, e \in {"array", "absent", "other"} }

PsqlCommand(kind, db, table) == [kind |-> kind, db |-> db, table |-> table]

NoSummary == [total |-> 0, valid |-> 0, invalid |-> 0, errors |-> <<>>]

\* The handler has not been called.
PgNotCalled ==
  /\ argument = "postgres"
  /\ pgDbName = <<>>
  /\ tables = <<>>
  /\ idx = 0
  /\ validationSummary = NoSummary
  /\ allResults = <<>>
  /\ executed = <<>>
  /\ returnString = ""
  /\ pgpc = "idle"

\* The body of the loop over the tables, after psql has run for tableName with
\* result r: the counters and the error list it leaves.
TableOutcome(sum, tableName, r) ==
  IF r.throws
    THEN \* catch (tableError)
         [sum EXCEPT !.invalid = @ + 1, !.errors = Append(@, tableName)]
  ELSE IF r.parse # "object"
    THEN \* JSON.parse or result.valid throws: catch (parseError)
         [sum EXCEPT !.valid = @ + 1]
  ELSE IF r.valid
    THEN [sum EXCEPT !.valid = @ + 1]
  ELSE IF r.errors = "other"
    THEN \* invalid++ is done, then result.errors.join throws inside the
         \* argument of push: catch (parseError) runs valid++
         [sum EXCEPT !.invalid = @ + 1, !.valid = @ + 1]
  ELSE [sum EXCEPT !.invalid = @ + 1, !.errors = Append(@, tableName)]

\* The handler is called with its argument.
InitPg ==
  /\ request = [resourceType |-> "vm", uri |-> FALSE]
  /\ profile = CHOOSE pr \in Profiles : TRUE
  /\ thePlan = <<>>
  /\ outs = [t \in {} |-> TRUE]
  /\ verdict = NoVerdict
  /\ pc = "idle"
  /\ argument \in {"postgres", "mongod"}
  /\ pgDbName = <<>>
  /\ tables = <<>>
  /\ idx = 0
  /\ validationSummary = NoSummary
  /\ allResults = <<>>
  /\ executed = <<>>
  /\ returnString = ""
  /\ pgpc = "start"

PgRunUnchanged == UNCHANGED <<request, profile, thePlan, outs, verdict, pc>>

\* argument !== "postgres": the tool refuses the workload.
PgWrongWorkload ==
  /\ pgpc = "start"
  /\ argument # "postgres"
  /\ returnString' = "Validation Failed. Reason"
  /\ pgpc' = "done"
  /\ UNCHANGED <<argument, pgDbName, tables, idx, validationSummary,
                 allResults, executed>>
  /\ PgRunUnchanged

\* POSTGRES_DB_NAME and POSTGRES_VALIDATE_ALL_TABLES are read and the
\* database name is validated; an invalid name throws to the outer catch.
PgReadEnv ==
  /\ pgpc = "start"
  /\ argument = "postgres"
  /\ \E db \in Names, validateAllTables \in BOOLEAN :
       /\ pgDbName' = db
       /\ IF ~ValidName(db)
            THEN /\ returnString' = "Validation Failed.  Details"
                 /\ pgpc' = "done"
            ELSE /\ returnString' = returnString
                 /\ pgpc' = IF validateAllTables THEN "list" ELSE "single"
  /\ UNCHANGED <<argument, tables, idx, validationSummary, allResults, executed>>
  /\ PgRunUnchanged

\* psql lists the public tables; if it fails the outer catch returns.
PgListTables ==
  /\ pgpc = "list"
  /\ executed' = Append(executed, PsqlCommand("list", pgDbName, <<>>))
  /\ \/ /\ returnString' = "Validation Failed.  Details"
        /\ pgpc' = "done"
        /\ UNCHANGED <<tables, idx, validationSummary>>
     \/ \E ts \in SeqsUpTo(ListedNames, MaxTables) :
          /\ tables' = ts
          /\ idx' = 1
          /\ validationSummary' = [NoSummary EXCEPT !.total = Len(ts)]
          /\ pgpc' = "loop"
          /\ UNCHANGED returnString
  /\ UNCHANGED <<argument, pgDbName, allResults>>
  /\ PgRunUnchanged

\* One turn of the loop: psql runs the validation script for the next table
\* and its result is counted.
PgValidateTable ==
  /\ pgpc = "loop"
  /\ idx <= Len(tables)
  /\ executed' = Append(executed, PsqlCommand("validate", pgDbName, tables[idx]))
  /\ \E r \in PsqlResults :
       validationSummary' = TableOutcome(validationSummary, tables[idx], r)
  /\ allResults' = Append(allResults, tables[idx])
  /\ idx' = idx + 1
  /\ UNCHANGED <<argument, pgDbName, tables, returnString, pgpc>>
  /\ PgRunUnchanged

\* The loop has ended: the summary report is returned.
PgSummary ==
  /\ pgpc = "loop"
  /\ idx > Len(tables)
  /\ returnString' = "Summary"
  /\ pgpc' = "done"
  /\ UNCHANGED <<argument, pgDbName, tables, idx, validationSummary,
                 allResults, executed>>
  /\ PgRunUnchanged

\* Single table: POSTGRES_TABLE_NAME is read and validated, then psql runs
\* the validation script for it; an invalid name or a psql failure throws to
\* the outer catch.
PgSingleTable ==
  /\ pgpc = "single"
  /\ \E pgTableName \in Names :
       IF ~ValidName(pgTableName)
         THEN /\ returnString' = "Validation Failed.  Details"
              /\ UNCHANGED executed
         ELSE /\ executed' = Append(executed,
                                    PsqlCommand("validate", pgDbName, pgTableName))
              /\ returnString' \in {"stdout", "Validation Failed.  Details"}
  /\ pgpc' = "done"
  /\ UNCHANGED <<argument, pgDbName, tables, idx, validationSummary, allResults>>
  /\ PgRunUnchanged

NextPg ==
  \/ PgWrongWorkload
  \/ PgReadEnv
  \/ PgListTables
  \/ PgValidateTable
  \/ PgSummary
  \/ PgSingleTable

SpecPg == InitPg /\ [][NextPg]_vars

\* ------------------------------------------------------------ the run
Init ==
  /\ request \in Requests
  /\ profile \in Profiles
  /\ thePlan = <<>>
  /\ outs = [t \in {} |-> TRUE]
  /\ verdict = NoVerdict
  /\ pc = "request"
  /\ PgNotCalled

\* The planner turns the request into the plan.
PlanRequest ==
  /\ pc = "request"
  /\ thePlan' = Plan(request)
  /\ pc' = "execute"
  /\ UNCHANGED <<request, profile, outs, verdict>>
  /\ UNCHANGED pgvars

\* A planned tool that has not answered yet returns its output.
ToolReturns ==
  /\ pc = "execute"
  /\ \E tool \in PlanTools(thePlan) \ DOMAIN outs :
       \E o \in OutputsOf(tool) :
         outs' = [t \in DOMAIN outs \cup {tool} |->
                    IF t = tool THEN o ELSE outs[t]]
  /\ UNCHANGED <<request, profile, thePlan, verdict, pc>>
  /\ UNCHANGED pgvars

\* The evaluator reduces the outputs of the executed tools to the verdict.
Evaluate ==
  /\ pc = "execute"
  /\ LET checks == ChecksOf(outs, profile)
     IN  \E s \in ScoreChoices(PassedChecks(checks), TotalChecks(checks)) :
           verdict' = [ checks |-> checks,
                        score |-> s,
                        overallPass |-> OverallPass(checks) ]
  /\ pc' = "done"
  /\ UNCHANGED <<request, profile, thePlan, outs>>
  /\ UNCHANGED pgvars

Next == PlanRequest \/ ToolReturns \/ Evaluate

Spec == Init /\ [][Next]_vars

\* ------------------------------------------------------------- claims
\* The tools of the plan after its first step.
PlanTailTools == [i \in 1..(Len(thePlan) - 1) |-> thePlan[i + 1].tool]

\* The marks of the verdict, each as <<tool, index>>.
VerdictMarks ==
  UNION { {<<t, i>> : i \in 1..Len(verdict.checks[t])} : t \in DOMAIN verdict.checks }

VerdictFails == {m \in VerdictMarks : verdict.checks[m[1]][m[2]].status = "FAIL"}

C6_AsClaimed ==
  pc = "done" =>
    \A t \in DOMAIN outs :
      ~outs[t].ok =>
        verdict.checks[t] = << [name |-> <<t>>, status |-> "FAIL", message |-> TRUE] >>

C8_AsClaimed ==
  (pc = "done" /\ "vm_linux_services" \in DOMAIN outs) =>
    LET cs == verdict.checks["vm_linux_services"]
    IN  /\ Len(cs) = Cardinality(profile.required_services)
        /\ Cardinality({i \in 1..Len(cs) : cs[i].status = "FAIL"})
             = Cardinality(profile.required_services
                             \cap outs["vm_linux_services"].missing)

\* C8 as amended: a vm_linux_services output gives exactly one mark, about
\* the tool, whatever the size of required_services; it is FAIL exactly when
\* at least one name of required_services is reported missing, and a service
\* reported missing that is not required does not make it FAIL.
C8_OneCheckForServices ==
  (pc = "done" /\ "vm_linux_services" \in DOMAIN outs) =>
    LET cs == verdict.checks["vm_linux_services"]
    IN  /\ Len(cs) = 1
        /\ cs[1].name = <<"vm_linux_services">>
        /\ (cs[1].status = "FAIL") <=>
             (\E n \in profile.required_services :
                n \in outs["vm_linux_services"].missing)
        /\ cs[1].status \in {"PASS", "FAIL"}

\* C8 witness: two services are required, one of them is reported missing,
\* and the verdict has the single FAIL mark of the tool.
C8_Witness ==
  /\ pc = "done"
  /\ "vm_linux_services" \in DOMAIN outs
  /\ Cardinality(profile.required_services) = 2
  /\ outs["vm_linux_services"].missing = {"sshd"}
  /\ Len(verdict.checks["vm_linux_services"]) = 1
  /\ verdict.checks["vm_linux_services"][1].status = "FAIL"

\* C11 as claimed: every psql command the handler has run, in the single-table
\* and in the all-tables mode, carries a database name and (when it validates
\* a table) a table name that match ^[a-zA-Z0-9_$]+$; and when the handler
\* has ended after a listed table name did not match, it has returned a
\* 'Validation Failed' result.
C11_AsClaimed ==
  /\ \A i \in 1..Len(executed) :
       /\ ValidName(executed[i].db)
       /\ executed[i].kind = "validate" => ValidName(executed[i].table)
  /\ (pgpc = "done" /\ \E i \in 1..Len(tables) : ~ValidName(tables[i])) =>
       returnString \in {"Validation Failed. Reason", "Validation Failed.  Details"}

\* C12 as claimed: when the loop over the listed tables has ended, valid +
\* invalid = total = the number of listed tables, and the errors list has
\* exactly one entry per table counted invalid.
C12_AsClaimed ==
  (pgpc = "done" /\ returnString = "Summary") =>
    /\ validationSummary.total = Len(tables)
    /\ validationSummary.valid + validationSummary.invalid = validationSummary.total
    /\ Len(validationSummary.errors) = validationSummary.invalid

====
